---- MODULE Spec2Model ----
(***************************************************************************)
(* Model of the subtitle tools of video-chat-transcript:                   *)
(*   tools/subtitle_chunker.py   chunk_transcript (duration chunker)        *)
(*   tools/subtitle_merger.py    the resumable, quota-bounded batch merger  *)
(*                               with its tracking ledger                   *)
(*   tools/subtitle_merger_chunker.py   build_transcript (duration back-fill)*)
(* Three specifications share the variables: SpecChunk runs the chunker     *)
(* loop over bounded transcripts; SpecBuild applies build_transcript to     *)
(* bounded row lists; Spec runs the merger over bounded catalogs, each      *)
(* fetch ending in any way and the process failing anywhere; SpecLive       *)
(* repeats undisturbed runs of the merger against a service whose answer    *)
(* per video is fixed.                                                      *)
(***************************************************************************)
EXTENDS Integers, Sequences, FiniteSets, TLC

(* ----------------------------- bounds --------------------------------- *)
MaxSegs == 3
MaxStart == 1
MaxDur == 2
MaxThreshold == 3
MaxRows == 3
MaxRowStart == 2
MaxVideos == 3
MaxQuota == 2
MaxGroupSize == 2
MaxRuns == 2

(* Python's None and a present value, kept apart from every number. *)
None == <<>>
Some(x) == <<x>>

(* ------------------------- chunker state ------------------------------ *)
VARIABLES
    transcript,                 \* the segment list handed to chunk_transcript
    min_chunk_time,             \* its threshold argument
    chunks,                     \* the result list
    current_chunk_text,         \* texts accumulated for the running chunk
    current_chunk_start_time,   \* None or Some(start of the first segment)
    current_chunk_duration,     \* running sum of durations
    item_idx,                   \* position of the for loop (next item to visit)
    chunk_pc,                   \* "off" | "build" | "built" | "loop" | "done" | "main" | "written"
    chunk_items,                \* history: per emitted chunk, the indices appended to it
    group_rows,                 \* the .data rows handed to build_transcript
    data_rows,                  \* merger-chunker main: the rows read from --input-file
    video_idx,                  \* position of its loop over video_groups.items()
    all_chunks                  \* its output rows

chunkVars == <<transcript, min_chunk_time, chunks, current_chunk_text,
               current_chunk_start_time, current_chunk_duration, item_idx,
               chunk_pc, chunk_items, group_rows, data_rows, video_idx, all_chunks>>

mainVars == <<data_rows, video_idx, all_chunks>>

(* The merger-chunker's main not in use. *)
MainOff == data_rows = <<>> /\ video_idx = 1 /\ all_chunks = <<>>

(* -------------------------- merger state ------------------------------ *)
VARIABLES
    catalog,            \* get_video_list(args.source_csv): rows [video_id, url, subtitle]
    max_videos,         \* None for --max-videos all, else Some(int(args.max_videos))
    group_size,         \* args.group_size
    fetchable,          \* the videos whose transcript the service returns (SpecLive)
    tracking_exists,    \* os.path.exists(TRACKING_FILE)
    tracking_file,      \* the rows stored in TRACKING_FILE
    artifacts,          \* the .data files of DATA_DIR: merged_file name -> rows
    pc,                 \* where main() stands
    run,                \* number of runs of main() started so far
    processed,          \* main: the key set returned by load_tracking
    tracking_table,     \* main: the table returned by load_tracking, then extended
    lang_video_lists,   \* main: per language, the accepted videos
    count_per_lang,     \* main: per language, the accepted count
    scan_idx,           \* main: position of `for v in videos`
    lang_idx,           \* main: position of `for lang in LANG_ORDER` (second loop)
    list_idx,           \* main: position of `for v in lang_video_lists[lang]`
    group,              \* main: the pending group
    part_idx,           \* main: the part number of the pending group
    final,              \* merge_and_save was called after the loop (line 175), not in it
    fetch_idx,          \* merge_and_save: position of `for v in group`
    merged_lines,       \* merge_and_save: output records so far
    tracking_rows,      \* merge_and_save: ledger rows so far
    save_idx,           \* save_tracking: position of `for row in table`
    loaded_table,       \* history: the table as load_tracking returned it
    saved,              \* history: the ledger as the last save that returned left it
    fetch_log,          \* history: the fetch_transcript calls of this run
    sealed,             \* history: the groups handed to merge_and_save in this run
    cause               \* history: why the run ended early ("" while it has not)

argVars == <<catalog, max_videos, group_size, fetchable>>
storeVars == <<tracking_exists, tracking_file, artifacts>>
scanVars == <<processed, lang_video_lists, count_per_lang, scan_idx>>
groupVars == <<lang_idx, list_idx, group, part_idx, final>>
mergeVars == <<fetch_idx, merged_lines, tracking_rows>>
histVars == <<loaded_table, saved, fetch_log, sealed, cause>>

mergerVars == <<argVars, storeVars, pc, run, scanVars, tracking_table, groupVars,
                mergeVars, save_idx, histVars>>

vars == <<chunkVars, mergerVars>>

(* The merger before any run, with an empty catalog (the chunker's runs). *)
NoFiles == [n \in {} |-> <<>>]

MergerOff ==
    /\ catalog = <<>> /\ max_videos = None /\ group_size = 1 /\ fetchable = {}
    /\ tracking_exists = FALSE /\ tracking_file = <<>> /\ artifacts = NoFiles
    /\ pc = "off" /\ run = 0
    /\ processed = {} /\ tracking_table = <<>>
    /\ lang_video_lists = <<>> /\ count_per_lang = <<>> /\ scan_idx = 1
    /\ lang_idx = 1 /\ list_idx = 1 /\ group = <<>> /\ part_idx = 1 /\ final = FALSE
    /\ fetch_idx = 1 /\ merged_lines = <<>> /\ tracking_rows = <<>>
    /\ save_idx = 1
    /\ loaded_table = <<>> /\ saved = <<>> /\ fetch_log = <<>> /\ sealed = <<>> /\ cause = ""

(* The chunker not in use (the merger's runs). *)
ChunkOff ==
    /\ transcript = <<>> /\ min_chunk_time = 0 /\ chunks = <<>>
    /\ current_chunk_text = <<>> /\ current_chunk_start_time = None
    /\ current_chunk_duration = 0 /\ item_idx = 1 /\ chunk_pc = "off"
    /\ chunk_items = <<>>
    /\ group_rows = <<>>
    /\ MainOff

(* Segment texts: one distinct word per position, so that a dropped, a    *)
(* repeated and a moved segment all change the joined text.                *)
SegTexts == <<"a", "b", "c", "d", "e">>

Starts == 0..MaxStart
Durations == (0 - 1)..MaxDur
Thresholds == (0 - 1)..MaxThreshold

Transcripts ==
    UNION { { [i \in 1..n |-> [text |-> SegTexts[i], start |-> f[i][1], duration |-> f[i][2]]]
                : f \in [1..n -> Starts \X Durations] } : n \in 0..MaxSegs }

(* " ".join(texts) *)
RECURSIVE Join(_)
Join(texts) ==
    IF Len(texts) = 0 THEN ""
    ELSE IF Len(texts) = 1 THEN texts[1]
    ELSE texts[1] \o " " \o Join(Tail(texts))

(* The list under construction for the running chunk, as segment indices:  *)
(* the last Len(current_chunk_text) items visited.                          *)
CurrentItems ==
    [k \in 1..Len(current_chunk_text) |-> item_idx - Len(current_chunk_text) + k - 1]

InitChunk ==
    /\ transcript \in Transcripts
    /\ min_chunk_time \in Thresholds
    /\ chunks = <<>>
    /\ current_chunk_text = <<>>
    /\ current_chunk_start_time = None
    /\ current_chunk_duration = 0
    /\ item_idx = 1
    /\ chunk_pc = "loop"
    /\ chunk_items = <<>>
    /\ group_rows = <<>>
    /\ MainOff
    /\ MergerOff

(* `if not transcript: return []` *)
ChunkEmpty ==
    /\ chunk_pc = "loop"
    /\ Len(transcript) = 0
    /\ chunk_pc' = "done"
    /\ UNCHANGED <<transcript, min_chunk_time, chunks, current_chunk_text,
                   current_chunk_start_time, current_chunk_duration, item_idx,
                   chunk_items>>
    /\ UNCHANGED <<group_rows, mainVars, mergerVars>>

ChunkEmit(text, start) == [text |-> Join(text), start_time |-> start]

(* ChunkStep with the reset of the running duration forgotten. *)
ChunkStep_NoReset ==
    /\ chunk_pc = "loop"
    /\ Len(transcript) > 0
    /\ item_idx <= Len(transcript)
    /\ LET item == transcript[item_idx]
           start == IF current_chunk_start_time = None
                    THEN Some(item.start) ELSE current_chunk_start_time
           text == Append(current_chunk_text, item.text)
           dur == current_chunk_duration + item.duration
       IN  IF dur >= min_chunk_time
           THEN /\ chunks' = Append(chunks, ChunkEmit(text, start))
                /\ chunk_items' = Append(chunk_items, Append(CurrentItems, item_idx))
                /\ current_chunk_text' = <<>>
                /\ current_chunk_start_time' = None
                /\ current_chunk_duration' = dur
           ELSE /\ chunks' = chunks
                /\ chunk_items' = chunk_items
                /\ current_chunk_text' = text
                /\ current_chunk_start_time' = start
                /\ current_chunk_duration' = dur
    /\ item_idx' = item_idx + 1
    /\ UNCHANGED <<transcript, min_chunk_time, chunk_pc>>
    /\ UNCHANGED <<group_rows, mainVars, mergerVars>>

(* ChunkStep inserting the finished chunk at the head of the result. *)
ChunkStep_Prepend ==
    /\ chunk_pc = "loop"
    /\ Len(transcript) > 0
    /\ item_idx <= Len(transcript)
    /\ LET item == transcript[item_idx]
           start == IF current_chunk_start_time = None
                    THEN Some(item.start) ELSE current_chunk_start_time
           text == Append(current_chunk_text, item.text)
           dur == current_chunk_duration + item.duration
       IN  IF dur >= min_chunk_time
           THEN /\ chunks' = <<ChunkEmit(text, start)>> \o chunks
                /\ chunk_items' = <<Append(CurrentItems, item_idx)>> \o chunk_items
                /\ current_chunk_text' = <<>>
                /\ current_chunk_start_time' = None
                /\ current_chunk_duration' = 0
           ELSE /\ chunks' = chunks
                /\ chunk_items' = chunk_items
                /\ current_chunk_text' = text
                /\ current_chunk_start_time' = start
                /\ current_chunk_duration' = dur
    /\ item_idx' = item_idx + 1
    /\ UNCHANGED <<transcript, min_chunk_time, chunk_pc>>
    /\ UNCHANGED <<group_rows, mainVars, mergerVars>>

(* ChunkStep testing the running start for truth (`if not ...`) instead of  *)
(* `is None`: a start of 0 is taken for unset.                              *)
ChunkStep_Falsy ==
    /\ chunk_pc = "loop"
    /\ Len(transcript) > 0
    /\ item_idx <= Len(transcript)
    /\ LET item == transcript[item_idx]
           start == IF current_chunk_start_time = None \/ current_chunk_start_time = Some(0)
                    THEN Some(item.start) ELSE current_chunk_start_time
           text == Append(current_chunk_text, item.text)
           dur == current_chunk_duration + item.duration
       IN  IF dur >= min_chunk_time
           THEN /\ chunks' = Append(chunks, ChunkEmit(text, start))
                /\ chunk_items' = Append(chunk_items, Append(CurrentItems, item_idx))
                /\ current_chunk_text' = <<>>
                /\ current_chunk_start_time' = None
                /\ current_chunk_duration' = 0
           ELSE /\ chunks' = chunks
                /\ chunk_items' = chunk_items
                /\ current_chunk_text' = text
                /\ current_chunk_start_time' = start
                /\ current_chunk_duration' = dur
    /\ item_idx' = item_idx + 1
    /\ UNCHANGED <<transcript, min_chunk_time, chunk_pc>>
    /\ UNCHANGED <<group_rows, mainVars, mergerVars>>

(* ChunkStep with `>` for `>=` in the threshold test. *)
ChunkStep_Strict ==
    /\ chunk_pc = "loop"
    /\ Len(transcript) > 0
    /\ item_idx <= Len(transcript)
    /\ LET item == transcript[item_idx]
           start == IF current_chunk_start_time = None
                    THEN Some(item.start) ELSE current_chunk_start_time
           text == Append(current_chunk_text, item.text)
           dur == current_chunk_duration + item.duration
       IN  IF dur > min_chunk_time
           THEN /\ chunks' = Append(chunks, ChunkEmit(text, start))
                /\ chunk_items' = Append(chunk_items, Append(CurrentItems, item_idx))
                /\ current_chunk_text' = <<>>
                /\ current_chunk_start_time' = None
                /\ current_chunk_duration' = 0
           ELSE /\ chunks' = chunks
                /\ chunk_items' = chunk_items
                /\ current_chunk_text' = text
                /\ current_chunk_start_time' = start
                /\ current_chunk_duration' = dur
    /\ item_idx' = item_idx + 1
    /\ UNCHANGED <<transcript, min_chunk_time, chunk_pc>>
    /\ UNCHANGED <<group_rows, mainVars, mergerVars>>

(* One iteration of `for item in transcript`. *)
ChunkStep ==
    /\ chunk_pc = "loop"
    /\ Len(transcript) > 0
    /\ item_idx <= Len(transcript)
    /\ LET item == transcript[item_idx]
           start == IF current_chunk_start_time = None
                    THEN Some(item.start) ELSE current_chunk_start_time
           text == Append(current_chunk_text, item.text)
           dur == current_chunk_duration + item.duration
       IN  IF dur >= min_chunk_time
           THEN /\ chunks' = Append(chunks, ChunkEmit(text, start))
                /\ chunk_items' = Append(chunk_items, Append(CurrentItems, item_idx))
                /\ current_chunk_text' = <<>>
                /\ current_chunk_start_time' = None
                /\ current_chunk_duration' = 0
           ELSE /\ chunks' = chunks
                /\ chunk_items' = chunk_items
                /\ current_chunk_text' = text
                /\ current_chunk_start_time' = start
                /\ current_chunk_duration' = dur
    /\ item_idx' = item_idx + 1
    /\ UNCHANGED <<transcript, min_chunk_time, chunk_pc>>
    /\ UNCHANGED <<group_rows, mainVars, mergerVars>>

(* ChunkTail without the flush of the trailing run. *)
ChunkTail_NoFlush ==
    /\ chunk_pc = "loop"
    /\ Len(transcript) > 0
    /\ item_idx > Len(transcript)
    /\ chunk_pc' = "done"
    /\ UNCHANGED <<transcript, min_chunk_time, chunks, chunk_items, current_chunk_text,
                   current_chunk_start_time, current_chunk_duration, item_idx>>
    /\ UNCHANGED <<group_rows, mainVars, mergerVars>>

(* After the loop: `if current_chunk_text:` flushes the trailing run. *)
ChunkTail ==
    /\ chunk_pc = "loop"
    /\ Len(transcript) > 0
    /\ item_idx > Len(transcript)
    /\ IF current_chunk_text # <<>>
       THEN /\ chunks' = Append(chunks, ChunkEmit(current_chunk_text, current_chunk_start_time))
            /\ chunk_items' = Append(chunk_items, CurrentItems)
       ELSE UNCHANGED <<chunks, chunk_items>>
    /\ chunk_pc' = "done"
    /\ UNCHANGED <<transcript, min_chunk_time, current_chunk_text,
                   current_chunk_start_time, current_chunk_duration, item_idx>>
    /\ UNCHANGED <<group_rows, mainVars, mergerVars>>

NextChunk == ChunkEmpty \/ ChunkStep \/ ChunkTail

SpecChunk == InitChunk /\ [][NextChunk]_vars

(* ------------------------ chunker properties -------------------------- *)
RECURSIVE Flatten(_)
Flatten(ss) == IF Len(ss) = 0 THEN <<>> ELSE ss[1] \o Flatten(Tail(ss))

RECURSIVE SumDur(_)
SumDur(idxs) ==
    IF Len(idxs) = 0 THEN 0 ELSE transcript[idxs[1]].duration + SumDur(Tail(idxs))

TextsAt(idxs) == [j \in 1..Len(idxs) |-> transcript[idxs[j]].text]

(* C1 - chunk completeness: when chunk_transcript has returned, the segments *)
(* aggregated into the chunks, taken chunk after chunk, are exactly segments   *)
(* 1..n in input order, each chunk's text is the space-join of its segments'  *)
(* texts, and the chunk texts joined in order spell the segment texts joined  *)
(* in order: nothing dropped, repeated or moved, the trailing run included.   *)
ChunkCompleteness ==
    chunk_pc = "done" =>
        /\ Len(chunks) = Len(chunk_items)
        /\ Flatten(chunk_items) = [i \in 1..Len(transcript) |-> i]
        /\ \A k \in 1..Len(chunks) : chunks[k].text = Join(TextsAt(chunk_items[k]))
        /\ Join([k \in 1..Len(chunks) |-> chunks[k].text])
             = Join([i \in 1..Len(transcript) |-> transcript[i].text])

(* A finished run of several chunks whose last one is a trailing run that   *)
(* never reached the threshold.                                              *)
ChunkCompletenessWitness ==
    /\ chunk_pc = "done"
    /\ Len(transcript) >= 3
    /\ Len(chunks) >= 2
    /\ current_chunk_text # <<>>
    /\ current_chunk_duration < min_chunk_time

(* C2 - chunk threshold: every chunk emitted inside the loop, hence every    *)
(* chunk other than the last of the result, aggregates segments whose        *)
(* durations sum to at least min_chunk_time.                                 *)
ChunkThreshold ==
    \A k \in 1..Len(chunks) :
        (k < Len(chunks) \/ chunk_pc # "done")
            => SumDur(chunk_items[k]) >= min_chunk_time

(* A result whose last chunk is below the threshold while an earlier chunk   *)
(* of several segments reached it.                                           *)
ChunkThresholdWitness ==
    /\ chunk_pc = "done"
    /\ Len(chunks) >= 2
    /\ Len(chunk_items[1]) >= 2
    /\ SumDur(chunk_items[Len(chunks)]) < min_chunk_time

SortedStarts ==
    \A i \in 1..(Len(transcript) - 1) : transcript[i].start <= transcript[i + 1].start

(* C14 - chunk ordering: for a transcript ordered by non-decreasing start,   *)
(* at every point of chunk_transcript each chunk of the result has a         *)
(* start_time, not below the start_time of the chunk before it, and holds    *)
(* segments that all come after those of the chunk before it.                *)
ChunkOrdering ==
    SortedStarts =>
        /\ \A k \in 1..Len(chunks) : chunks[k].start_time # None
        /\ \A k \in 1..(Len(chunks) - 1) :
               /\ chunks[k].start_time[1] <= chunks[k + 1].start_time[1]
               /\ chunk_items[k][Len(chunk_items[k])] < chunk_items[k + 1][1]

(* A finished run over an ordered transcript: a chunk of two segments, then  *)
(* a chunk that starts later.                                                *)
ChunkOrderingWitness ==
    /\ chunk_pc = "done"
    /\ SortedStarts
    /\ Len(chunks) = 2
    /\ Len(chunk_items[1]) = 2
    /\ chunks[1].start_time[1] < chunks[2].start_time[1]

(* C18 - chunk start: at every point of chunk_transcript the start_time of   *)
(* each chunk of the result is the start of the first segment aggregated    *)
(* into it, a start of 0 included, and the running start is that of the     *)
(* first segment of the running chunk.                                      *)
ChunkStart ==
    /\ \A k \in 1..Len(chunks) :
           chunks[k].start_time = Some(transcript[chunk_items[k][1]].start)
    /\ chunk_pc = "loop" =>
           current_chunk_start_time =
               IF current_chunk_text = <<>> THEN None
               ELSE Some(transcript[CurrentItems[1]].start)

(* A result whose first chunk starts at 0 and holds a later segment that     *)
(* starts at 1, followed by a further chunk.                                 *)
ChunkStartWitness ==
    /\ chunk_pc = "done"
    /\ Len(chunks) >= 2
    /\ Len(chunk_items[1]) >= 2
    /\ transcript[1].start = 0
    /\ transcript[2].start = 1
    /\ chunks[1].start_time = Some(0)

(* C19 - degenerate threshold: with min_chunk_time <= 0 and no negative      *)
(* duration, every segment visited has become a chunk of its own, so the     *)
(* result has one chunk per segment, with that segment's text and start;     *)
(* and an empty transcript gives an empty result.                            *)
DegenerateThreshold ==
    /\ (min_chunk_time <= 0 /\ \A i \in 1..Len(transcript) : transcript[i].duration >= 0) =>
           /\ Len(chunks) = item_idx - 1
           /\ current_chunk_text = <<>>
           /\ chunk_pc = "done" => Len(chunks) = Len(transcript)
           /\ \A k \in 1..Len(chunks) :
                  /\ chunk_items[k] = <<k>>
                  /\ chunks[k].text = transcript[k].text
                  /\ chunks[k].start_time = Some(transcript[k].start)
    /\ (chunk_pc = "done" /\ transcript = <<>>) => chunks = <<>>

(* A finished run with threshold 0 over three segments, one of duration 0.   *)
DegenerateThresholdWitness ==
    /\ chunk_pc = "done"
    /\ min_chunk_time = 0
    /\ Len(transcript) = 3
    /\ Len(chunks) = 3
    /\ \E i \in 1..3 : transcript[i].duration = 0

(* ========================= build_transcript =========================== *)
FallbackDuration == 2

(* The start_time_seconds column of a .data file is text: a whole number of  *)
(* seconds written with or without a fractional part.                        *)
Digits == <<"0", "1", "2", "3", "4", "5", "6", "7", "8", "9">>
StartFields ==
    {Digits[n + 1] : n \in 0..MaxRowStart} \cup {Digits[n + 1] \o ".0" : n \in 0..MaxRowStart}

(* float(row['start_time_seconds']) *)
float(field) == CHOOSE n \in 0..9 : field = Digits[n + 1] \/ field = Digits[n + 1] \o ".0"

RowLists ==
    UNION { { [i \in 1..n |-> [text |-> SegTexts[i], start_time_seconds |-> f[i]]]
                : f \in [1..n -> StartFields] } : n \in 0..MaxRows }

(* build_transcript clamping a negative difference but not a zero one       *)
(* (`<` for `<=`).                                                          *)
RECURSIVE build_transcript_ClampNegative(_, _, _)
build_transcript_ClampNegative(rs, i, acc) ==
    IF i > Len(rs) THEN acc
    ELSE LET start == float(rs[i].start_time_seconds)
             duration ==
                 IF i < Len(rs)
                 THEN LET d == float(rs[i + 1].start_time_seconds) - start
                      IN  IF d < 0 THEN FallbackDuration ELSE d
                 ELSE FallbackDuration
         IN  build_transcript_ClampNegative(rs, i + 1,
                 Append(acc, [text |-> rs[i].text, start |-> start, duration |-> duration]))

(* build_transcript: the loop from row i on, acc being the list so far.     *)
RECURSIVE build_transcript(_, _, _)
build_transcript(rs, i, acc) ==
    IF i > Len(rs) THEN acc
    ELSE LET start == float(rs[i].start_time_seconds)
             duration ==
                 IF i < Len(rs)
                 THEN LET d == float(rs[i + 1].start_time_seconds) - start
                      IN  IF d <= 0 THEN FallbackDuration ELSE d
                 ELSE FallbackDuration
         IN  build_transcript(rs, i + 1,
                 Append(acc, [text |-> rs[i].text, start |-> start, duration |-> duration]))

InitBuild ==
    /\ group_rows \in RowLists
    /\ transcript = <<>>
    /\ min_chunk_time = 0
    /\ chunks = <<>>
    /\ current_chunk_text = <<>>
    /\ current_chunk_start_time = None
    /\ current_chunk_duration = 0
    /\ item_idx = 1
    /\ chunk_pc = "build"
    /\ chunk_items = <<>>
    /\ MainOff
    /\ MergerOff

(* transcript = build_transcript(group_rows) *)
BuildTranscript ==
    /\ chunk_pc = "build"
    /\ transcript' = build_transcript(group_rows, 1, <<>>)
    /\ chunk_pc' = "built"
    /\ UNCHANGED <<min_chunk_time, chunks, current_chunk_text, current_chunk_start_time,
                   current_chunk_duration, item_idx, chunk_items, group_rows>>
    /\ UNCHANGED <<mainVars, mergerVars>>

NextBuild == BuildTranscript

SpecBuild == InitBuild /\ [][NextBuild]_vars

(* C20 - duration back-fill: the transcript build_transcript returns has one *)
(* segment per row, in row order, with the row's text and parsed start; a    *)
(* segment other than the last has the difference to the next row's start   *)
(* as its duration when that is positive and the fallback 2.0 otherwise,     *)
(* the last has the fallback; so every duration is strictly positive.        *)
DurationBackFill ==
    chunk_pc = "built" =>
        /\ Len(transcript) = Len(group_rows)
        /\ \A i \in 1..Len(group_rows) :
               LET start == float(group_rows[i].start_time_seconds)
                   last == i = Len(group_rows)
                   next == IF last THEN start ELSE float(group_rows[i + 1].start_time_seconds)
               IN  /\ transcript[i].text = group_rows[i].text
                   /\ transcript[i].start = start
                   /\ transcript[i].duration > 0
                   /\ (~last /\ next > start) => transcript[i].duration = next - start
                   /\ (last \/ next <= start) => transcript[i].duration = FallbackDuration

(* Three rows: the second starts one second after the first, the third at    *)
(* the same second as the second, written differently.                       *)
DurationBackFillWitness ==
    /\ chunk_pc = "built"
    /\ Len(group_rows) = 3
    /\ group_rows[1].start_time_seconds = "0"
    /\ group_rows[2].start_time_seconds = "1"
    /\ group_rows[3].start_time_seconds = "1.0"
    /\ transcript[1].duration = 1
    /\ transcript[2].duration = FallbackDuration

(* ===================== the merger-chunker's main ====================== *)
(* subtitle_merger_chunker.py main: the rows of one merged .data file are   *)
(* grouped by video_url, each group is sorted by start, turned into a       *)
(* transcript and chunked by the file's own chunk_transcript; the chunks of *)
(* all videos go to one output file.  The speaker column is copied through  *)
(* from the group's first row and is left out of the rows here.             *)

MaxDataRows == 4
MaxUrls == 2

VideoUrls == <<"v=A", "v=B", "v=C">>

(* The input files of n rows.  A url appears for the first time only after  *)
(* every url before it in VideoUrls has appeared (the names are arbitrary).  *)
DataFilesOf(n) ==
    { [i \in 1..n |-> [text |-> SegTexts[i],
                       video_url |-> VideoUrls[f[i][1]],
                       start_time_seconds |-> f[i][2]]]
        : f \in { g \in [1..n -> (1..MaxUrls) \X StartFields] :
                    \A i \in 1..n : \A u \in 1..(g[i][1] - 1) :
                        \E j \in 1..(i - 1) : g[j][1] = u } }

(* The second copy of chunk_transcript, subtitle_merger_chunker.py: the for  *)
(* loop from item i on; st holds chunks and the three accumulators.          *)
RECURSIVE chunk_loop(_, _, _, _)
chunk_loop(tr, i, min, st) ==
    IF i > Len(tr) THEN st
    ELSE LET item == tr[i]
             start_time == IF st.current_chunk_start_time = None
                           THEN Some(item.start)
                           ELSE st.current_chunk_start_time
             text == Append(st.current_chunk_text, item.text)
             duration == st.current_chunk_duration + item.duration
         IN  chunk_loop(tr, i + 1, min,
                 IF duration >= min
                 THEN [chunks |-> Append(st.chunks,
                                     [text |-> Join(text), start_time |-> start_time]),
                       current_chunk_text |-> <<>>,
                       current_chunk_start_time |-> None,
                       current_chunk_duration |-> 0]
                 ELSE [chunks |-> st.chunks,
                       current_chunk_text |-> text,
                       current_chunk_start_time |-> start_time,
                       current_chunk_duration |-> duration])

(* The second copy without its flush after the loop. *)
chunk_transcript_NoFlush(tr, min) ==
    IF tr = <<>> THEN <<>>
    ELSE chunk_loop(tr, 1, min,
                    [chunks |-> <<>>, current_chunk_text |-> <<>>,
                     current_chunk_start_time |-> None,
                     current_chunk_duration |-> 0]).chunks

chunk_transcript(tr, min) ==
    IF tr = <<>> THEN <<>>
    ELSE LET st == chunk_loop(tr, 1, min,
                       [chunks |-> <<>>, current_chunk_text |-> <<>>,
                        current_chunk_start_time |-> None,
                        current_chunk_duration |-> 0])
         IN  IF st.current_chunk_text # <<>>
             THEN Append(st.chunks, [text |-> Join(st.current_chunk_text),
                                     start_time |-> st.current_chunk_start_time])
             ELSE st.chunks

(* The keys of video_groups in insertion order: each video_url at the place  *)
(* of its first row.                                                         *)
RECURSIVE VideoOrder(_, _, _)
VideoOrder(rs, i, acc) ==
    IF i > Len(rs) THEN acc
    ELSE VideoOrder(rs, i + 1,
             IF \E k \in 1..Len(acc) : acc[k] = rs[i].video_url
             THEN acc
             ELSE Append(acc, rs[i].video_url))

(* video_groups[url]: the rows of that url in file order. *)
VideoGroup(rs, url) == SelectSeq(rs, LAMBDA r : r.video_url = url)

(* list.sort(key=float(start_time_seconds)): stable, so a row goes after     *)
(* every row already placed whose key is not greater.                        *)
RECURSIVE SortRows(_, _, _)
SortRows(rs, i, acc) ==
    IF i > Len(rs) THEN acc
    ELSE LET key == float(rs[i].start_time_seconds)
             k == Cardinality({ j \in 1..Len(acc) :
                                  float(acc[j].start_time_seconds) <= key })
         IN  SortRows(rs, i + 1,
                 SubSeq(acc, 1, k) \o <<rs[i]>> \o SubSeq(acc, k + 1, Len(acc)))

(* round(x, 2) of a whole number of seconds. *)
round2(x) == (x * 100) \div 100

(* The rows main appends for one video. *)
ChunkRows(cs, video_url) ==
    [k \in 1..Len(cs) |-> [text |-> cs[k].text,
                            video_url |-> video_url,
                            start_time_seconds |-> round2(cs[k].start_time[1])]]

InitMain ==
    /\ \E n \in 0..MaxDataRows : data_rows \in DataFilesOf(n)
    /\ min_chunk_time \in Thresholds
    /\ video_idx = 1
    /\ all_chunks = <<>>
    /\ group_rows = <<>>
    /\ transcript = <<>>
    /\ chunks = <<>>
    /\ current_chunk_text = <<>>
    /\ current_chunk_start_time = None
    /\ current_chunk_duration = 0
    /\ item_idx = 1
    /\ chunk_pc = "main"
    /\ chunk_items = <<>>
    /\ MergerOff

(* `if not rows: ... return`: nothing is written. *)
MainEmpty ==
    /\ chunk_pc = "main"
    /\ data_rows = <<>>
    /\ chunk_pc' = "returned"
    /\ UNCHANGED <<transcript, min_chunk_time, chunks, current_chunk_text,
                   current_chunk_start_time, current_chunk_duration, item_idx,
                   chunk_items, group_rows, mainVars, mergerVars>>

(* A main that does not group: the whole file is sorted and chunked as one   *)
(* video under the url of its first row.                                     *)
ProcessVideo_WholeFile ==
    /\ chunk_pc = "main"
    /\ data_rows # <<>>
    /\ video_idx <= Len(VideoOrder(data_rows, 1, <<>>))
    /\ LET video_url == VideoOrder(data_rows, 1, <<>>)[1]
           sorted == SortRows(data_rows, 1, <<>>)
           tr == build_transcript(sorted, 1, <<>>)
           cs == chunk_transcript(tr, min_chunk_time)
       IN  /\ group_rows' = sorted
           /\ transcript' = tr
           /\ chunks' = cs
           /\ all_chunks' = all_chunks \o ChunkRows(cs, video_url)
    /\ video_idx' = Len(VideoOrder(data_rows, 1, <<>>)) + 1
    /\ UNCHANGED <<min_chunk_time, current_chunk_text, current_chunk_start_time,
                   current_chunk_duration, item_idx, chunk_pc, chunk_items,
                   data_rows, mergerVars>>

(* One pass of `for video_url, group_rows in video_groups.items()`: sort,    *)
(* build_transcript, chunk_transcript, then the appends to all_chunks (none  *)
(* when there are no chunks).                                                *)
ProcessVideo ==
    /\ chunk_pc = "main"
    /\ data_rows # <<>>
    /\ video_idx <= Len(VideoOrder(data_rows, 1, <<>>))
    /\ LET video_url == VideoOrder(data_rows, 1, <<>>)[video_idx]
           sorted == SortRows(VideoGroup(data_rows, video_url), 1, <<>>)
           tr == build_transcript(sorted, 1, <<>>)
           cs == chunk_transcript(tr, min_chunk_time)
       IN  /\ group_rows' = sorted
           /\ transcript' = tr
           /\ chunks' = cs
           /\ all_chunks' = IF cs = <<>> THEN all_chunks
                            ELSE all_chunks \o ChunkRows(cs, video_url)
    /\ video_idx' = video_idx + 1
    /\ UNCHANGED <<min_chunk_time, current_chunk_text, current_chunk_start_time,
                   current_chunk_duration, item_idx, chunk_pc, chunk_items,
                   data_rows, mergerVars>>

(* After the loop: all_chunks is written to the output file. *)
WriteOutput ==
    /\ chunk_pc = "main"
    /\ data_rows # <<>>
    /\ video_idx > Len(VideoOrder(data_rows, 1, <<>>))
    /\ chunk_pc' = "written"
    /\ UNCHANGED <<transcript, min_chunk_time, chunks, current_chunk_text,
                   current_chunk_start_time, current_chunk_duration, item_idx,
                   chunk_items, group_rows, mainVars, mergerVars>>

NextMain == MainEmpty \/ ProcessVideo \/ WriteOutput

SpecMain == InitMain /\ [][NextMain]_vars

(* ============================ the merger ============================== *)
LANG_ORDER == <<"zh", "en", "th">>
Langs == {LANG_ORDER[i] : i \in 1..Len(LANG_ORDER)}

(* Video ids are opaque: a catalog names its videos 1, 2, ... in order of    *)
(* first appearance; a later row may repeat an earlier id (get_video_list    *)
(* keeps repeated rows).                                                     *)
VideoIds == 1..MaxVideos

(* The subtitle column, split at commas. *)
SubtitleChoices == {{"zh"}, {"en", "th"}}

(* Rows of get_video_list; url is the row's video_url, one per video_id. *)
Videos == [video_id : VideoIds, subtitle : SubtitleChoices]
Url(video_id) == video_id

FirstAppearanceOrder(c) ==
    \A i \in 1..Len(c) :
        \/ c[i].video_id = 1
        \/ \E j \in 1..(i - 1) : c[j].video_id = c[i].video_id - 1

Catalogs == {c \in UNION {[1..n -> Videos] : n \in 0..MaxVideos} : FirstAppearanceOrder(c)}

MaxVideosChoices == {None} \cup {Some(n) : n \in 0..MaxQuota}

(* What the caption service holds for a video: two segments. *)
TranscriptOf(video_id) ==
    [k \in 1..2 |-> [text |-> <<video_id, k>>, start |-> k - 1]]

(* The ways one get_transcript call can end. *)
FetchOutcomes == {"ok", "empty", "not_found", "error"}

(* fetch_transcript: the transcript, or None after either except clause. *)
fetch_transcript(video_id, outcome) ==
    CASE outcome = "ok" -> Some(TranscriptOf(video_id))
      [] outcome = "empty" -> Some(<<>>)
      [] outcome = "not_found" -> None
      [] outcome = "error" -> None

(* NotTranscript as `transcript is None`: an empty list passes. *)
NotTranscript_NoneOnly(t) == t = None

(* Python's `not transcript`: None or an empty list. *)
NotTranscript(t) == t = None \/ t[1] = <<>>

Speaker(lang) == IF lang = "zh" THEN "laoshi" ELSE IF lang = "th" THEN "Ajahn" ELSE "Speaker"

(* f"{source_name}_{lang}_part{part_idx}.data", source_name being fixed *)
MergedFile(lang, idx) == <<lang, idx>>

KeyOf(row) == <<row.video_id, row.lang>>
KeysOf(rows) == {KeyOf(rows[i]) : i \in 1..Len(rows)}

(* load_tracking that fills the table but not the key set. *)
load_tracking_processed_Empty == {}

(* load_tracking *)
load_tracking_processed == IF tracking_exists THEN KeysOf(tracking_file) ELSE {}
load_tracking_table == IF tracking_exists THEN tracking_file ELSE <<>>

Init ==
    /\ ChunkOff
    /\ catalog \in Catalogs
    /\ max_videos \in MaxVideosChoices
    /\ group_size \in 1..MaxGroupSize
    /\ fetchable = VideoIds
    /\ tracking_exists = FALSE /\ tracking_file = <<>> /\ artifacts = NoFiles
    /\ pc = "idle" /\ run = 0
    /\ processed = {} /\ tracking_table = <<>>
    /\ lang_video_lists = [l \in Langs |-> <<>>]
    /\ count_per_lang = [l \in Langs |-> 0]
    /\ scan_idx = 1
    /\ lang_idx = 1 /\ list_idx = 1 /\ group = <<>> /\ part_idx = 1 /\ final = FALSE
    /\ fetch_idx = 1 /\ merged_lines = <<>> /\ tracking_rows = <<>>
    /\ save_idx = 1
    /\ loaded_table = <<>> /\ saved = <<>> /\ fetch_log = <<>> /\ sealed = <<>> /\ cause = ""

Stopped == pc \in {"idle", "done", "aborted", "crashed"}

(* StartRun whose load_tracking opens the file without the test of line 44: *)
(* on a missing file open() raises and the run ends before the scan.        *)
StartRun_NoExistsCheck ==
    /\ Stopped
    /\ run < MaxRuns
    /\ run' = run + 1
    /\ IF tracking_exists
       THEN pc' = "scan" /\ cause' = ""
       ELSE pc' = "aborted" /\ cause' = "load"
    /\ processed' = load_tracking_processed
    /\ tracking_table' = load_tracking_table
    /\ loaded_table' = load_tracking_table
    /\ lang_video_lists' = [l \in Langs |-> <<>>]
    /\ count_per_lang' = [l \in Langs |-> 0]
    /\ scan_idx' = 1
    /\ lang_idx' = 1 /\ list_idx' = 1 /\ group' = <<>> /\ part_idx' = 1 /\ final' = FALSE
    /\ fetch_idx' = 1 /\ merged_lines' = <<>> /\ tracking_rows' = <<>>
    /\ save_idx' = 1
    /\ fetch_log' = <<>> /\ sealed' = <<>>
    /\ UNCHANGED <<argVars, storeVars, saved, chunkVars>>

(* main, lines 136-145: a new process loads the ledger and starts the scan. *)
StartRun ==
    /\ Stopped
    /\ run < MaxRuns
    /\ run' = run + 1
    /\ pc' = "scan"
    /\ processed' = load_tracking_processed
    /\ tracking_table' = load_tracking_table
    /\ loaded_table' = load_tracking_table
    /\ lang_video_lists' = [l \in Langs |-> <<>>]
    /\ count_per_lang' = [l \in Langs |-> 0]
    /\ scan_idx' = 1
    /\ lang_idx' = 1 /\ list_idx' = 1 /\ group' = <<>> /\ part_idx' = 1 /\ final' = FALSE
    /\ fetch_idx' = 1 /\ merged_lines' = <<>> /\ tracking_rows' = <<>>
    /\ save_idx' = 1
    /\ fetch_log' = <<>> /\ sealed' = <<>> /\ cause' = ""
    /\ UNCHANGED <<argVars, storeVars, saved, chunkVars>>

(* Accepts with the quota test one item late (`>` for `==`). *)
Accepts_Late(v, lang, counts, done) ==
    /\ Some(counts[lang] - 1) # max_videos
    /\ <<v.video_id, lang>> \notin done
    /\ lang \in v.subtitle

(* Accepts without the test against the processed set. *)
Accepts_NoProcessedTest(v, lang, counts, done) ==
    /\ Some(counts[lang]) # max_videos
    /\ lang \in v.subtitle

(* Accepts with one counter shared by the languages. *)
Accepts_SharedCount(v, lang, counts, done) ==
    /\ Some(counts[LANG_ORDER[1]] + counts[LANG_ORDER[2]] + counts[LANG_ORDER[3]]) # max_videos
    /\ <<v.video_id, lang>> \notin done
    /\ lang \in v.subtitle

(* The three tests of the scan's inner loop, lines 151-155. *)
Accepts(v, lang, counts, done) ==
    /\ Some(counts[lang]) # max_videos
    /\ <<v.video_id, lang>> \notin done
    /\ lang \in v.subtitle

(* ScanStep counting a processed item against the quota: the counter moves  *)
(* before the test against the processed set.                               *)
ScanStep_CountsProcessed(v, st, done) ==
    [lists |-> [l \in Langs |-> IF Accepts(v, l, st.counts, done)
                                THEN Append(st.lists[l], v) ELSE st.lists[l]],
     counts |-> [l \in Langs |-> IF Some(st.counts[l]) # max_videos /\ l \in v.subtitle
                                 THEN st.counts[l] + 1 ELSE st.counts[l]]]

(* Lines 148-157: the body of `for v in videos` on the lists and counts. *)
ScanStep(v, st, done) ==
    [lists |-> [l \in Langs |-> IF Accepts(v, l, st.counts, done)
                                THEN Append(st.lists[l], v) ELSE st.lists[l]],
     counts |-> [l \in Langs |-> IF Accepts(v, l, st.counts, done)
                                 THEN st.counts[l] + 1 ELSE st.counts[l]]]

(* main, lines 147-157: one video of the scan, all languages. *)
ScanVideo ==
    /\ pc = "scan"
    /\ scan_idx <= Len(catalog)
    /\ LET st == ScanStep(catalog[scan_idx],
                          [lists |-> lang_video_lists, counts |-> count_per_lang],
                          processed)
       IN  /\ lang_video_lists' = st.lists
           /\ count_per_lang' = st.counts
    /\ scan_idx' = scan_idx + 1
    /\ UNCHANGED <<argVars, storeVars, pc, run, processed, tracking_table, groupVars,
                   mergeVars, save_idx, histVars, chunkVars>>

(* main, lines 160-162: the scan is over, the first language starts. *)
ScanEnd ==
    /\ pc = "scan"
    /\ scan_idx > Len(catalog)
    /\ pc' = "group"
    /\ lang_idx' = 1 /\ list_idx' = 1 /\ group' = <<>> /\ part_idx' = 1
    /\ UNCHANGED <<argVars, storeVars, run, scanVars, tracking_table, final,
                   mergeVars, save_idx, histVars, chunkVars>>

(* The call merge_and_save(group, lang, part_idx, source_name) begins. *)
CallMerge(g, isFinal) ==
    /\ pc' = "fetch"
    /\ final' = isFinal
    /\ fetch_idx' = 1 /\ merged_lines' = <<>> /\ tracking_rows' = <<>>
    /\ sealed' = Append(sealed, [lang |-> LANG_ORDER[lang_idx], part |-> part_idx, items |-> g])

(* main, lines 163-168: one video of the language's list. *)
GroupStep ==
    /\ pc = "group"
    /\ lang_idx <= Len(LANG_ORDER)
    /\ list_idx <= Len(lang_video_lists[LANG_ORDER[lang_idx]])
    /\ LET lang == LANG_ORDER[lang_idx]
           v == lang_video_lists[lang][list_idx]
       IN  IF <<v.video_id, lang>> \in processed
           THEN UNCHANGED <<pc, group, final, mergeVars, sealed>>
           ELSE /\ group' = Append(group, v)
                /\ IF Len(group) + 1 = group_size
                   THEN CallMerge(Append(group, v), FALSE)
                   ELSE UNCHANGED <<pc, final, mergeVars, sealed>>
    /\ list_idx' = list_idx + 1
    /\ UNCHANGED <<argVars, storeVars, run, scanVars, tracking_table, lang_idx, part_idx,
                   save_idx, loaded_table, saved, fetch_log, cause, chunkVars>>

(* NextLang with part_idx set once before the loop over the languages: the   *)
(* numbering runs on from one language to the next.                          *)
NextLang_KeepPart ==
    /\ pc' = "group"
    /\ lang_idx' = lang_idx + 1
    /\ list_idx' = 1 /\ group' = <<>> /\ part_idx' = part_idx

(* The next iteration of `for lang in LANG_ORDER`, lines 160-162. *)
NextLang ==
    /\ pc' = "group"
    /\ lang_idx' = lang_idx + 1
    /\ list_idx' = 1 /\ group' = <<>> /\ part_idx' = 1

(* GroupEnd without lines 174-177: a pending short group is dropped. *)
GroupEnd_NoFinal ==
    /\ pc = "group"
    /\ lang_idx <= Len(LANG_ORDER)
    /\ list_idx > Len(lang_video_lists[LANG_ORDER[lang_idx]])
    /\ NextLang
    /\ UNCHANGED <<final, mergeVars, sealed>>
    /\ UNCHANGED <<argVars, storeVars, run, scanVars, tracking_table,
                   save_idx, loaded_table, saved, fetch_log, cause, chunkVars>>

(* main, lines 173-175: the list is exhausted; a pending group is merged. *)
GroupEnd ==
    /\ pc = "group"
    /\ lang_idx <= Len(LANG_ORDER)
    /\ list_idx > Len(lang_video_lists[LANG_ORDER[lang_idx]])
    /\ IF group # <<>>
       THEN /\ CallMerge(group, TRUE)
            /\ UNCHANGED <<lang_idx, list_idx, group, part_idx>>
       ELSE /\ NextLang
            /\ UNCHANGED <<final, mergeVars, sealed>>
    /\ UNCHANGED <<argVars, storeVars, run, scanVars, tracking_table,
                   save_idx, loaded_table, saved, fetch_log, cause, chunkVars>>

(* main returns after the last language. *)
MainReturn ==
    /\ pc = "group"
    /\ lang_idx > Len(LANG_ORDER)
    /\ pc' = "done"
    /\ UNCHANGED <<argVars, storeVars, run, scanVars, tracking_table, groupVars,
                   mergeVars, save_idx, histVars, chunkVars>>

OutputRows(v, lang, t) ==
    [k \in 1..Len(t) |-> [text |-> t[k].text, video_url |-> Url(v.video_id),
                          start_time_seconds |-> t[k].start, speaker |-> Speaker(lang)]]

TrackingRow(v, lang, idx) ==
    [video_id |-> v.video_id, lang |-> lang, merged_file |-> MergedFile(lang, idx)]

(* FetchItem that records a ledger row for a failed fetch as well. *)
FetchItem_MarksFailed ==
    /\ pc = "fetch"
    /\ fetch_idx <= Len(group)
    /\ \E outcome \in FetchOutcomes :
        LET lang == LANG_ORDER[lang_idx]
            v == group[fetch_idx]
            t == fetch_transcript(v.video_id, outcome)
        IN  /\ IF NotTranscript(t)
               THEN merged_lines' = merged_lines
               ELSE merged_lines' = merged_lines \o OutputRows(v, lang, t[1])
            /\ tracking_rows' = Append(tracking_rows, TrackingRow(v, lang, part_idx))
            /\ fetch_log' = Append(fetch_log,
                                [video_id |-> v.video_id, lang |-> lang, part |-> part_idx,
                                 pos |-> fetch_idx, ok |-> ~NotTranscript(t)])
    /\ fetch_idx' = fetch_idx + 1
    /\ UNCHANGED <<argVars, storeVars, pc, run, scanVars, tracking_table, groupVars,
                   save_idx, loaded_table, saved, sealed, cause, chunkVars>>

(* merge_and_save, lines 97-117: one video of the group. *)
FetchItem ==
    /\ pc = "fetch"
    /\ fetch_idx <= Len(group)
    /\ \E outcome \in FetchOutcomes :
        LET lang == LANG_ORDER[lang_idx]
            v == group[fetch_idx]
            t == fetch_transcript(v.video_id, outcome)
        IN  /\ IF NotTranscript(t)
               THEN UNCHANGED <<merged_lines, tracking_rows>>
               ELSE /\ merged_lines' = merged_lines \o OutputRows(v, lang, t[1])
                    /\ tracking_rows' = Append(tracking_rows, TrackingRow(v, lang, part_idx))
            /\ fetch_log' = Append(fetch_log,
                                [video_id |-> v.video_id, lang |-> lang, part |-> part_idx,
                                 pos |-> fetch_idx, ok |-> ~NotTranscript(t)])
    /\ fetch_idx' = fetch_idx + 1
    /\ UNCHANGED <<argVars, storeVars, pc, run, scanVars, tracking_table, groupVars,
                   save_idx, loaded_table, saved, sealed, cause, chunkVars>>

(* merge_and_save, lines 118-126: the artifact is written (or there is none *)
(* to write) and the rows are returned.                                     *)
WriteArtifact ==
    /\ pc = "fetch"
    /\ fetch_idx > Len(group)
    /\ IF merged_lines # <<>>
       THEN artifacts' = (MergedFile(LANG_ORDER[lang_idx], part_idx) :> merged_lines) @@ artifacts
       ELSE artifacts' = artifacts
    /\ pc' = "extend"
    /\ UNCHANGED <<argVars, tracking_exists, tracking_file, run, scanVars, tracking_table,
                   groupVars, mergeVars, save_idx, histVars, chunkVars>>

(* WriteArtifactFails with the error caught and logged: the rows are        *)
(* returned all the same.                                                   *)
WriteArtifactFails_Swallowed ==
    /\ pc = "fetch"
    /\ fetch_idx > Len(group)
    /\ merged_lines # <<>>
    /\ pc' = "extend"
    /\ cause' = "artifact"
    /\ UNCHANGED <<argVars, storeVars, run, scanVars, tracking_table,
                   groupVars, mergeVars, save_idx, loaded_table, saved, fetch_log, sealed, chunkVars>>

(* merge_and_save, lines 119-120: open() raises (DATA_DIR not writable) and *)
(* nothing in main catches it.                                              *)
WriteArtifactFails ==
    /\ pc = "fetch"
    /\ fetch_idx > Len(group)
    /\ merged_lines # <<>>
    /\ pc' = "aborted"
    /\ cause' = "artifact"
    /\ UNCHANGED <<argVars, storeVars, run, scanVars, tracking_table,
                   groupVars, mergeVars, save_idx, loaded_table, saved, fetch_log, sealed, chunkVars>>

(* main, lines 169-170 / 176-177, and save_tracking, line 53: the returned  *)
(* rows extend the table and the ledger file is opened for writing, which   *)
(* truncates it.                                                            *)
SaveOpen ==
    /\ pc = "extend"
    /\ tracking_table' = tracking_table \o tracking_rows
    /\ tracking_exists' = TRUE
    /\ tracking_file' = <<>>
    /\ save_idx' = 1
    /\ pc' = "save"
    /\ UNCHANGED <<argVars, artifacts, run, scanVars, groupVars, mergeVars,
                   histVars, chunkVars>>

(* save_tracking, lines 57-58: one row is written. *)
SaveRow ==
    /\ pc = "save"
    /\ save_idx <= Len(tracking_table)
    /\ tracking_file' = Append(tracking_file, tracking_table[save_idx])
    /\ save_idx' = save_idx + 1
    /\ UNCHANGED <<argVars, tracking_exists, artifacts, pc, run, scanVars, tracking_table,
                   groupVars, mergeVars, histVars, chunkVars>>

(* save_tracking returns; main, lines 171-172, or the next language. *)
SaveClose ==
    /\ pc = "save"
    /\ save_idx > Len(tracking_table)
    /\ IF final
       THEN NextLang
       ELSE /\ pc' = "group"
            /\ group' = <<>>
            /\ part_idx' = part_idx + 1
            /\ UNCHANGED <<lang_idx, list_idx>>
    /\ saved' = tracking_file
    /\ UNCHANGED <<argVars, storeVars, run, scanVars, tracking_table, final, mergeVars,
                   save_idx, loaded_table, fetch_log, sealed, cause, chunkVars>>

(* save_tracking raises: at open() the file is left alone, at a write it    *)
(* keeps the rows written so far. Nothing in main catches it.               *)
SaveFails ==
    /\ \/ /\ pc = "extend"
          /\ tracking_table' = tracking_table \o tracking_rows
       \/ /\ pc = "save"
          /\ tracking_table' = tracking_table
    /\ pc' = "aborted"
    /\ cause' = "ledger"
    /\ UNCHANGED <<argVars, storeVars, run, scanVars, groupVars, mergeVars, save_idx,
                   loaded_table, saved, fetch_log, sealed, chunkVars>>

(* The process is interrupted (killed, power loss) where it stands: its     *)
(* memory is gone, the files stay as they are.                              *)
Crash ==
    /\ pc \in {"scan", "group", "fetch", "extend", "save"}
    /\ pc' = "crashed"
    /\ cause' = "crash"
    /\ processed' = {} /\ tracking_table' = <<>>
    /\ lang_video_lists' = [l \in Langs |-> <<>>]
    /\ count_per_lang' = [l \in Langs |-> 0]
    /\ scan_idx' = 1
    /\ lang_idx' = 1 /\ list_idx' = 1 /\ group' = <<>> /\ part_idx' = 1 /\ final' = FALSE
    /\ fetch_idx' = 1 /\ merged_lines' = <<>> /\ tracking_rows' = <<>>
    /\ save_idx' = 1
    /\ UNCHANGED <<argVars, storeVars, run, loaded_table, saved, fetch_log, sealed, chunkVars>>

Next ==
    \/ StartRun \/ ScanVideo \/ ScanEnd \/ GroupStep \/ GroupEnd \/ MainReturn
    \/ FetchItem \/ WriteArtifact \/ WriteArtifactFails
    \/ SaveOpen \/ SaveRow \/ SaveClose \/ SaveFails \/ Crash

Spec == Init /\ [][Next]_vars

(* ---------------- repeated runs against a fixed service ---------------- *)
(* The same program, run again and again by its operator without failure    *)
(* or interruption, the service answering each video the same way on every  *)
(* call: with its transcript if the video is in fetchable, with             *)
(* NoTranscriptFound otherwise.                                             *)
InitLive ==
    /\ ChunkOff
    /\ catalog \in Catalogs
    /\ max_videos \in MaxVideosChoices
    /\ group_size \in 1..MaxGroupSize
    /\ fetchable \in SUBSET VideoIds
    /\ tracking_exists = FALSE /\ tracking_file = <<>> /\ artifacts = NoFiles
    /\ pc = "idle" /\ run = 0
    /\ processed = {} /\ tracking_table = <<>>
    /\ lang_video_lists = [l \in Langs |-> <<>>]
    /\ count_per_lang = [l \in Langs |-> 0]
    /\ scan_idx = 1
    /\ lang_idx = 1 /\ list_idx = 1 /\ group = <<>> /\ part_idx = 1 /\ final = FALSE
    /\ fetch_idx = 1 /\ merged_lines = <<>> /\ tracking_rows = <<>>
    /\ save_idx = 1
    /\ loaded_table = <<>> /\ saved = <<>> /\ fetch_log = <<>> /\ sealed = <<>> /\ cause = ""

(* main, lines 136-145, started once more; runs are counted up to MaxRuns.  *)
StartRunLive ==
    /\ Stopped
    /\ run' = IF run < MaxRuns THEN run + 1 ELSE run
    /\ pc' = "scan"
    /\ processed' = load_tracking_processed
    /\ tracking_table' = load_tracking_table
    /\ loaded_table' = load_tracking_table
    /\ lang_video_lists' = [l \in Langs |-> <<>>]
    /\ count_per_lang' = [l \in Langs |-> 0]
    /\ scan_idx' = 1
    /\ lang_idx' = 1 /\ list_idx' = 1 /\ group' = <<>> /\ part_idx' = 1 /\ final' = FALSE
    /\ fetch_idx' = 1 /\ merged_lines' = <<>> /\ tracking_rows' = <<>>
    /\ save_idx' = 1
    /\ fetch_log' = <<>> /\ sealed' = <<>> /\ cause' = ""
    /\ UNCHANGED <<argVars, storeVars, saved, chunkVars>>

(* merge_and_save, lines 97-117, against the fixed service. *)
FetchItemLive ==
    /\ pc = "fetch"
    /\ fetch_idx <= Len(group)
    /\ LET lang == LANG_ORDER[lang_idx]
           v == group[fetch_idx]
           outcome == IF v.video_id \in fetchable THEN "ok" ELSE "not_found"
           t == fetch_transcript(v.video_id, outcome)
       IN  /\ IF NotTranscript(t)
              THEN UNCHANGED <<merged_lines, tracking_rows>>
              ELSE /\ merged_lines' = merged_lines \o OutputRows(v, lang, t[1])
                   /\ tracking_rows' = Append(tracking_rows, TrackingRow(v, lang, part_idx))
           /\ fetch_log' = Append(fetch_log,
                               [video_id |-> v.video_id, lang |-> lang, part |-> part_idx,
                                pos |-> fetch_idx, ok |-> ~NotTranscript(t)])
    /\ fetch_idx' = fetch_idx + 1
    /\ UNCHANGED <<argVars, storeVars, pc, run, scanVars, tracking_table, groupVars,
                   save_idx, loaded_table, saved, sealed, cause, chunkVars>>

NextLive ==
    \/ StartRunLive \/ ScanVideo \/ ScanEnd \/ GroupStep \/ GroupEnd \/ MainReturn
    \/ FetchItemLive \/ WriteArtifact \/ SaveOpen \/ SaveRow \/ SaveClose

(* A sequential program takes its next step, and the operator starts the    *)
(* next run when one has returned.                                          *)
SpecLive == InitLive /\ [][NextLive]_vars /\ WF_vars(NextLive)

(* ------------------------- merger properties -------------------------- *)
Stored == IF tracking_exists THEN tracking_file ELSE <<>>

SealedOf(l) == SelectSeq(sealed, LAMBDA g : g.lang = l)

RECURSIVE SumLen(_)
SumLen(gs) == IF Len(gs) = 0 THEN 0 ELSE Len(gs[1].items) + SumLen(Tail(gs))

OkLog == SelectSeq(fetch_log, LAMBDA e : e.ok)
OkKeys == {<<OkLog[i].video_id, OkLog[i].lang>> : i \in 1..Len(OkLog)}

(* The (video_id, lang) pairs some catalog row advertises. *)
Advertised ==
    {k \in VideoIds \X Langs :
        \E i \in 1..Len(catalog) : catalog[i].video_id = k[1] /\ k[2] \in catalog[i].subtitle}

(* The whole scan of main, lines 142-157, for a given processed set. *)
RECURSIVE ScanFrom(_, _, _)
ScanFrom(i, st, done) ==
    IF i > Len(catalog) THEN st ELSE ScanFrom(i + 1, ScanStep(catalog[i], st, done), done)

Scheduler(done) ==
    ScanFrom(1, [lists |-> [l \in Langs |-> <<>>], counts |-> [l \in Langs |-> 0]], done)

ScanOver == pc \in {"group", "fetch", "extend", "save", "done", "aborted"}

(* C3 - quota bound: with a finite --max-videos, in every state of a run and *)
(* for every language, the accepted list, its counter and the items of all   *)
(* groups handed to merge_and_save stay within max_videos.                   *)
QuotaBound ==
    max_videos # None =>
        \A l \in Langs :
            /\ count_per_lang[l] <= max_videos[1]
            /\ Len(lang_video_lists[l]) <= max_videos[1]
            /\ SumLen(SealedOf(l)) <= max_videos[1]

(* A finished run that sealed exactly max_videos = 2 items of a language     *)
(* which three catalog rows advertise.                                       *)
QuotaBoundWitness ==
    /\ pc = "done"
    /\ max_videos = Some(2)
    /\ \E l \in Langs :
        /\ SumLen(SealedOf(l)) = 2
        /\ Cardinality({i \in 1..Len(catalog) : l \in catalog[i].subtitle}) = 3

(* C4 as stated - idempotence of resume: after a first run that ran to its   *)
(* end (here: one in which every fetch succeeded, so that its ledger holds   *)
(* all it accepted), the scheduler on the same catalog and quotas, with      *)
(* already_processed loaded from the ledger that run left, accepts no item.  *)
ResumeAcceptsNothing ==
    (pc = "done" /\ run = 1 /\ OkLog = fetch_log) =>
        \A l \in Langs : Scheduler(load_tracking_processed).lists[l] = <<>>

(* C4 as amended - the scheduler run again after a finished run accepts no   *)
(* pair the ledger records, in the scan replayed on the stored ledger and in *)
(* the lists of every later run; and when the ledger records every pair the *)
(* catalog advertises it accepts no item at all.                             *)
ResumeReprocessesNothing ==
    /\ (pc = "done" /\ run = 1) =>
         LET again == Scheduler(load_tracking_processed).lists
         IN  /\ \A l \in Langs : \A i \in 1..Len(again[l]) :
                    <<again[l][i].video_id, l>> \notin KeysOf(Stored)
             /\ Advertised \subseteq KeysOf(Stored) => \A l \in Langs : again[l] = <<>>
    /\ run >= 2 =>
         /\ \A l \in Langs : \A i \in 1..Len(lang_video_lists[l]) :
                <<lang_video_lists[l][i].video_id, l>> \notin KeysOf(loaded_table)
         /\ (ScanOver /\ Advertised \subseteq KeysOf(loaded_table))
                => \A l \in Langs : lang_video_lists[l] = <<>>

(* A second run, after a first one that recorded pairs, which has accepted   *)
(* an item of a language while the ledger it loaded records another item of  *)
(* the same language.                                                        *)
ResumeWitness ==
    /\ run = 2
    /\ ScanOver
    /\ \E l \in Langs :
        /\ lang_video_lists[l] # <<>>
        /\ \E k \in KeysOf(loaded_table) : k[2] = l /\ k \in Advertised

CeilDiv(n, g) == (n + g - 1) \div g

(* C5 - grouping: no group handed to merge_and_save is empty or larger than  *)
(* group_size; and when a run has finished, each language with n accepted    *)
(* items got exactly ceil(n / group_size) groups, all of group_size items    *)
(* but possibly the last, which together are the accepted list in order.     *)
Grouping ==
    /\ \A k \in 1..Len(sealed) :
           Len(sealed[k].items) >= 1 /\ Len(sealed[k].items) <= group_size
    /\ pc = "done" =>
         \A l \in Langs :
            LET gs == SealedOf(l)
                n == Len(lang_video_lists[l])
            IN  /\ Len(gs) = CeilDiv(n, group_size)
                /\ \A k \in 1..(Len(gs) - 1) : Len(gs[k].items) = group_size
                /\ Flatten([k \in 1..Len(gs) |-> gs[k].items]) = lang_video_lists[l]

(* A finished run with three accepted items of one language in groups of     *)
(* two: a full group and a short last one.                                   *)
GroupingWitness ==
    /\ pc = "done"
    /\ group_size = 2
    /\ \E l \in Langs :
        /\ Len(lang_video_lists[l]) = 3
        /\ Len(SealedOf(l)) = 2
        /\ Len(SealedOf(l)[2].items) = 1

UniqueKeys(rows) ==
    \A i, j \in 1..Len(rows) : KeyOf(rows[i]) = KeyOf(rows[j]) => i = j

(* C6 - ledger key uniqueness: neither the table in memory nor the stored    *)
(* ledger ever holds two entries with the same (video_id, lang).             *)
LedgerKeysUnique ==
    UniqueKeys(tracking_table) /\ UniqueKeys(tracking_file)

NewRows(rows) == SubSeq(rows, Len(loaded_table) + 1, Len(rows))

(* C7 - skip on resume: a pair recorded in the ledger loaded at the start of *)
(* a run is in no group handed to merge_and_save in that run, in no call of  *)
(* fetch_transcript, and in no row the run adds to the table or to the file. *)
SkipOnResume ==
    LET old == KeysOf(loaded_table)
    IN  /\ \A k \in 1..Len(sealed) : \A i \in 1..Len(sealed[k].items) :
               <<sealed[k].items[i].video_id, sealed[k].lang>> \notin old
        /\ \A i \in 1..Len(fetch_log) : <<fetch_log[i].video_id, fetch_log[i].lang>> \notin old
        /\ KeysOf(tracking_rows) \cap old = {}
        /\ pc # "crashed" => KeysOf(NewRows(tracking_table)) \cap old = {}
        /\ KeysOf(NewRows(tracking_file)) \cap old = {}

(* A finished second run that loaded a recorded pair the catalog still       *)
(* advertises, and fetched and recorded another pair.                        *)
SkipOnResumeWitness ==
    /\ run = 2
    /\ pc = "done"
    /\ KeysOf(loaded_table) \cap Advertised # {}
    /\ OkLog # <<>>
    /\ Len(tracking_file) > Len(loaded_table)

NoRepeatedIds ==
    \A i, j \in 1..Len(catalog) : catalog[i].video_id = catalog[j].video_id => i = j

(* C8 - bounded loss on crash: when a run (over a catalog of distinct ids)   *)
(* is interrupted, the pairs fetched in it that the stored ledger does not   *)
(* record all belong to one group: the earlier groups are all recorded.      *)
BoundedLossOnCrash ==
    (pc = "crashed" /\ NoRepeatedIds) =>
        LET lost == {i \in 1..Len(OkLog) :
                        <<OkLog[i].video_id, OkLog[i].lang>> \notin KeysOf(Stored)}
        IN  \A i, j \in lost :
                OkLog[i].lang = OkLog[j].lang /\ OkLog[i].part = OkLog[j].part

(* The calls of fetch_transcript made for the group being merged. *)
GroupLog == SubSeq(fetch_log, Len(fetch_log) - (fetch_idx - 1) + 1, Len(fetch_log))

(* C9 - per-item fetch failure: while a group is merged, every item before   *)
(* the loop position has been fetched whatever the earlier outcomes, the     *)
(* rows and records collected are those of the fetches that returned         *)
(* segments, in order, and the merge ends only after the last item; and the  *)
(* stored ledger gains no key but those of successful fetches, so a pair     *)
(* whose fetch failed is not in the processed set the next run loads.        *)
FetchFailureSkipsItem ==
    /\ pc \in {"fetch", "extend"} =>
         LET ok == SelectSeq(GroupLog, LAMBDA e : e.ok)
         IN  /\ Len(GroupLog) = fetch_idx - 1
             /\ \A j \in 1..Len(GroupLog) :
                    /\ GroupLog[j].pos = j
                    /\ GroupLog[j].video_id = group[j].video_id
                    /\ GroupLog[j].lang = LANG_ORDER[lang_idx]
             /\ tracking_rows =
                    [j \in 1..Len(ok) |-> TrackingRow(group[ok[j].pos], ok[j].lang, ok[j].part)]
             /\ merged_lines =
                    Flatten([j \in 1..Len(ok) |->
                                OutputRows(group[ok[j].pos], ok[j].lang, TranscriptOf(ok[j].video_id))])
    /\ pc = "extend" => fetch_idx = Len(group) + 1
    /\ KeysOf(Stored) \subseteq KeysOf(loaded_table) \cup OkKeys
    /\ pc \notin {"crashed", "aborted"} =>
         KeysOf(tracking_table) \subseteq KeysOf(loaded_table) \cup OkKeys

(* A group of two whose first fetch failed and whose second was still made   *)
(* and recorded.                                                             *)
FetchFailureWitness ==
    /\ pc = "extend"
    /\ Len(group) = 2
    /\ ~GroupLog[1].ok
    /\ GroupLog[2].ok
    /\ Len(tracking_rows) = 1

(* C10 - artifact write failure: once the write of a group's artifact has    *)
(* failed the run is over, the table holds the loaded rows and one row per   *)
(* successful fetch of the earlier groups only, none of the failed group,    *)
(* and the stored ledger is that same table, as it was when the group began. *)
ArtifactFailureKeepsLedger ==
    cause = "artifact" =>
        LET lang == LANG_ORDER[lang_idx]
            earlier == SelectSeq(fetch_log,
                                 LAMBDA e : e.ok /\ ~(e.lang = lang /\ e.part = part_idx))
        IN  /\ pc = "aborted"
            /\ tracking_rows # <<>>
            /\ Len(tracking_table) = Len(loaded_table) + Len(earlier)
            /\ \A i \in 1..Len(NewRows(tracking_table)) :
                   NewRows(tracking_table)[i].merged_file # MergedFile(lang, part_idx)
            /\ Stored = tracking_table

(* An artifact write that failed in the second group of a run whose first    *)
(* group had been recorded.                                                  *)
ArtifactFailureWitness ==
    /\ cause = "artifact"
    /\ pc = "aborted"
    /\ Len(sealed) >= 2
    /\ Len(tracking_table) > Len(loaded_table)

(* C11 - ledger write atomicity: when a save that adds rows to an earlier    *)
(* save (of a catalog of distinct ids) raises or is interrupted part-way,    *)
(* the stored ledger is left equal to the ledger as last saved: not empty,   *)
(* not truncated, not a part of the rows.                                    *)
LedgerWriteAtomic ==
    [][(/\ pc = "save" /\ pc' \in {"aborted", "crashed"}
        /\ NoRepeatedIds /\ saved # <<>> /\ tracking_rows # <<>>)
           => Stored' = saved]_vars

IsPrefix(s, t) == Len(s) <= Len(t) /\ SubSeq(t, 1, Len(s)) = s

(* C12 - ledger growth: whenever a save returns, in the run of an earlier    *)
(* save or in a later run (every fetch having succeeded, over a catalog of   *)
(* distinct ids), the ledger it has stored begins with the ledger the last   *)
(* save before it had stored, entry for entry: nothing removed or modified.  *)
LedgerGrowth ==
    [][(/\ pc = "save" /\ pc' = "group"
        /\ NoRepeatedIds /\ OkLog = fetch_log)
           => IsPrefix(saved, Stored')]_vars

(* The rows of a catalog that advertise a language and are not processed.    *)
Eligible(rows, l, done) ==
    SelectSeq(rows, LAMBDA v : l \in v.subtitle /\ <<v.video_id, l>> \notin done)

Take(s, n) == SubSeq(s, 1, IF n < Len(s) THEN n ELSE Len(s))

(* C13 - scheduler acceptance: at every point of the scan and after it, the  *)
(* list accepted for a language is the first max_videos of the catalog rows  *)
(* scanned so far that advertise the language and whose pair is not in the   *)
(* processed set, in catalog order (all of them with --max-videos all), and  *)
(* the language's counter is the length of that list: processed rows use no  *)
(* quota.                                                                    *)
SchedulerAcceptance ==
    (pc = "scan" \/ ScanOver) =>
        \A l \in Langs :
            LET el == Eligible(SubSeq(catalog, 1, scan_idx - 1), l, processed)
            IN  /\ lang_video_lists[l] = IF max_videos = None THEN el ELSE Take(el, max_videos[1])
                /\ count_per_lang[l] = Len(lang_video_lists[l])

(* A second run with --max-videos 1 over three rows of one language: the     *)
(* first row is processed, the second is accepted, the third is eligible    *)
(* and cut by the quota.                                                     *)
SchedulerAcceptanceWitness ==
    /\ run = 2
    /\ ScanOver
    /\ max_videos = Some(1)
    /\ Len(catalog) = 3
    /\ \E l \in Langs :
        /\ \A i \in 1..3 : l \in catalog[i].subtitle
        /\ <<catalog[1].video_id, l>> \in processed
        /\ <<catalog[3].video_id, l>> \notin processed
        /\ lang_video_lists[l] = <<catalog[2]>>

(* C15 - part numbering: in a run, the k-th group handed to merge_and_save   *)
(* for a language carries part number k; every fetch is made under the part  *)
(* number of the sealed group that holds its item; and each row the run adds *)
(* to the table, like each row collected for the group being merged, names   *)
(* the artifact built from its group's language and part number.             *)
PartNumbering ==
    /\ \A l \in Langs : \A k \in 1..Len(SealedOf(l)) : SealedOf(l)[k].part = k
    /\ \A i \in 1..Len(fetch_log) :
           LET e == fetch_log[i]
           IN  /\ e.part <= Len(SealedOf(e.lang))
               /\ e.pos <= Len(SealedOf(e.lang)[e.part].items)
               /\ SealedOf(e.lang)[e.part].items[e.pos].video_id = e.video_id
    /\ pc \in {"fetch", "extend"} =>
           /\ sealed[Len(sealed)].lang = LANG_ORDER[lang_idx]
           /\ sealed[Len(sealed)].part = part_idx
           /\ sealed[Len(sealed)].items = group
           /\ \A j \in 1..Len(tracking_rows) :
                  tracking_rows[j].merged_file = MergedFile(LANG_ORDER[lang_idx], part_idx)
    /\ pc # "crashed" =>
           /\ Len(NewRows(tracking_table)) <= Len(OkLog)
           /\ \A i \in 1..Len(NewRows(tracking_table)) :
                  /\ NewRows(tracking_table)[i].video_id = OkLog[i].video_id
                  /\ NewRows(tracking_table)[i].lang = OkLog[i].lang
                  /\ NewRows(tracking_table)[i].merged_file
                         = MergedFile(OkLog[i].lang, OkLog[i].part)

(* A finished run that sealed two groups of one language and then a group of *)
(* a later language, and recorded a row for each.                            *)
PartNumberingWitness ==
    /\ pc = "done"
    /\ \E i, j \in 1..Len(LANG_ORDER) :
        /\ i < j
        /\ Len(SealedOf(LANG_ORDER[i])) = 2
        /\ Len(SealedOf(LANG_ORDER[j])) >= 1
    /\ OkLog = fetch_log
    /\ Len(NewRows(tracking_table)) >= 3

(* C16 - first run: a run ends early only by a failed artifact or ledger     *)
(* write or an interruption, never in load_tracking; while the scan runs,    *)
(* the processed set is the key set of the table load_tracking returned,     *)
(* which is the stored ledger row for row, and with no ledger file both are  *)
(* empty.                                                                    *)
LoadTolerant ==
    /\ cause \in {"", "artifact", "ledger", "crash"}
    /\ pc = "aborted" => cause \in {"artifact", "ledger"}
    /\ pc = "scan" =>
          /\ processed = KeysOf(loaded_table)
          /\ tracking_table = loaded_table
          /\ loaded_table = Stored
          /\ ~tracking_exists => loaded_table = <<>> /\ processed = {}
    /\ ScanOver => processed = KeysOf(loaded_table)

(* The scan of a first run, over a catalog with rows, no ledger file having  *)
(* been there to load.                                                       *)
LoadTolerantWitness ==
    /\ run = 1
    /\ pc = "scan"
    /\ ~tracking_exists
    /\ scan_idx > 1
    /\ \E l \in Langs : lang_video_lists[l] # <<>>

(* The catalog scanned for one language alone, from row i on: one list, its  *)
(* length as the counter, and only that language's processed pairs.         *)
RECURSIVE ScanAlone(_, _, _, _)
ScanAlone(i, acc, l, done) ==
    IF i > Len(catalog) THEN acc
    ELSE LET v == catalog[i]
             take == /\ Some(Len(acc)) # max_videos
                     /\ <<v.video_id, l>> \notin done
                     /\ l \in v.subtitle
         IN  ScanAlone(i + 1, IF take THEN Append(acc, v) ELSE acc, l, done)

PairsOf(l, done) == {k \in done : k[2] = l}

(* C17 - language independence: after the single pass over the catalog, the  *)
(* list accepted for each language is the list a scan for that language      *)
(* alone produces, knowing only that language's processed pairs; and with    *)
(* --max-videos all a row is in the list of each language it advertises      *)
(* whose pair is not processed.                                              *)
LanguageIndependence ==
    ScanOver =>
        /\ \A l \in Langs :
               lang_video_lists[l] = ScanAlone(1, <<>>, l, PairsOf(l, processed))
        /\ max_videos = None =>
               \A i \in 1..Len(catalog) : \A l \in catalog[i].subtitle :
                   <<catalog[i].video_id, l>> \notin processed
                       => \E j \in 1..Len(lang_video_lists[l]) :
                              lang_video_lists[l][j] = catalog[i]

(* A second run with --max-videos 1 that loaded a pair of zh: it accepts a   *)
(* further zh row, and one row for en and, again, for th.                    *)
LanguageIndependenceWitness ==
    /\ run = 2
    /\ ScanOver
    /\ max_videos = Some(1)
    /\ PairsOf("zh", processed) # {}
    /\ Len(lang_video_lists["zh"]) = 1
    /\ Len(lang_video_lists["en"]) = 1
    /\ lang_video_lists["th"] = lang_video_lists["en"]

(* The records of a ledger row's item stand together, in segment order, in   *)
(* a file.                                                                   *)
HoldsItem(file, row) ==
    LET recs == OutputRows(row, row.lang, TranscriptOf(row.video_id))
    IN  \E off \in 0..(Len(file) - Len(recs)) : SubSeq(file, off + 1, off + Len(recs)) = recs

(* C21 - artifact and ledger agree per batch: once merge_and_save has        *)
(* passed its write, the group has records exactly if it has ledger rows;    *)
(* its rows are those of the items whose fetch returned a segment, in item   *)
(* order; with records its artifact is on disk and holds them, item after    *)
(* item and segment after segment; without records (in a first run, where    *)
(* nothing else can have made the file) there is no artifact of its name;    *)
(* and every row the run has added to the table names an artifact on disk    *)
(* that holds the records of the row's item.                                 *)
ArtifactAgreesWithLedger ==
    /\ pc \in {"extend", "save"} =>
          LET name == MergedFile(LANG_ORDER[lang_idx], part_idx)
              ok == SelectSeq(GroupLog, LAMBDA e : e.ok)
          IN  /\ (merged_lines # <<>>) <=> (tracking_rows # <<>>)
              /\ tracking_rows =
                     [j \in 1..Len(ok) |-> TrackingRow(group[ok[j].pos], ok[j].lang, ok[j].part)]
              /\ merged_lines # <<>> =>
                     /\ name \in DOMAIN artifacts
                     /\ artifacts[name] = merged_lines
                     /\ artifacts[name] =
                            Flatten([j \in 1..Len(tracking_rows) |->
                                        OutputRows(tracking_rows[j], tracking_rows[j].lang,
                                                   TranscriptOf(tracking_rows[j].video_id))])
              /\ (merged_lines = <<>> /\ run = 1) => name \notin DOMAIN artifacts
    /\ pc # "crashed" =>
          \A i \in 1..Len(NewRows(tracking_table)) :
              LET row == NewRows(tracking_table)[i]
              IN  /\ row.merged_file \in DOMAIN artifacts
                  /\ HoldsItem(artifacts[row.merged_file], row)

(* A group of two whose first fetch failed and whose second returned two     *)
(* segments: the artifact holds the two records and one row is returned.     *)
ArtifactAgreesWitness ==
    /\ pc = "extend"
    /\ Len(group) = 2
    /\ ~GroupLog[1].ok
    /\ GroupLog[2].ok
    /\ Len(tracking_rows) = 1
    /\ MergedFile(LANG_ORDER[lang_idx], part_idx) \in DOMAIN artifacts
    /\ Len(artifacts[MergedFile(LANG_ORDER[lang_idx], part_idx)]) = 2

(* C22 - ledger points at live data: when a run has returned (over a catalog *)
(* of distinct ids, every fetch of the run having succeeded), every row of   *)
(* the stored ledger names an artifact on disk that holds the records of     *)
(* the row's item.                                                           *)
LedgerPointsAtLiveData ==
    (pc = "done" /\ NoRepeatedIds /\ OkLog = fetch_log) =>
        \A i \in 1..Len(Stored) :
            /\ Stored[i].merged_file \in DOMAIN artifacts
            /\ HoldsItem(artifacts[Stored[i].merged_file], Stored[i])

(* C23 - progress across runs: with a finite, positive --max-videos and a    *)
(* catalog of distinct ids, run after run against a service whose answers    *)
(* are fixed, the stored ledger eventually records every pair the catalog   *)
(* advertises whose transcript the service returns.                          *)
ProgressAcrossRuns ==
    (max_videos # None /\ max_videos # Some(0) /\ NoRepeatedIds) =>
        <>(\A k \in Advertised : k[1] \in fetchable => k \in KeysOf(Stored))

(* The positions of the input rows of one video_url. *)
RowsOfUrl(url) == { i \in 1..Len(data_rows) : data_rows[i].video_url = url }

(* The sequences of n distinct members of S. *)
Arrangements(S, n) ==
    { q \in [1..n -> S] : \A a, b \in 1..n : q[a] = q[b] => a = b }

(* The space-join of the texts of the input rows at positions q. *)
RowTexts(q) == Join([j \in 1..Len(q) |-> data_rows[q[j]].text])

(* The output rows of one video_url, in output order. *)
ChunksOfUrl(url) == SelectSeq(all_chunks, LAMBDA c : c.video_url = url)

(* The least start among the input rows of one video_url. *)
FirstStart(url) ==
    CHOOSE x \in { float(data_rows[i].start_time_seconds) : i \in RowsOfUrl(url) } :
        \A i \in RowsOfUrl(url) : x <= float(data_rows[i].start_time_seconds)

(* The place of a url in the loop over video_groups. *)
PlaceOf(url) ==
    CHOOSE k \in 1..Len(VideoOrder(data_rows, 1, <<>>)) :
        VideoOrder(data_rows, 1, <<>>)[k] = url

(* C24 - chunks stay within one video: while and after the merger-chunker's   *)
(* main loops over the videos of a file, (a) every output row's text is the   *)
(* space-join of one or more input rows that all have the output row's        *)
(* video_url; (b) the output rows are those of the videos handled so far,     *)
(* video after video; (c) the output rows of a handled video, joined, spell   *)
(* every input row of that video exactly once and no other row; (d) the       *)
(* first output row of a video starts at that video's least start; (e) when   *)
(* the video handled last gave more than one chunk, its first chunk reached   *)
(* the threshold with its own segments' durations alone.                      *)
ChunksWithinOneVideo ==
    chunk_pc \in {"main", "written"} =>
        LET order == VideoOrder(data_rows, 1, <<>>)
        IN  /\ \A k \in 1..Len(all_chunks) :
                   LET c == all_chunks[k]
                       S == RowsOfUrl(c.video_url)
                   IN  /\ \E n \in 1..Cardinality(S) :
                              \E q \in Arrangements(S, n) : c.text = RowTexts(q)
                       /\ PlaceOf(c.video_url) < video_idx
            /\ \A k, m \in 1..Len(all_chunks) :
                   k < m => PlaceOf(all_chunks[k].video_url) <= PlaceOf(all_chunks[m].video_url)
            /\ \A v \in 1..(video_idx - 1) :
                   LET cu == ChunksOfUrl(order[v])
                       S == RowsOfUrl(order[v])
                   IN  /\ cu # <<>>
                       /\ \E q \in Arrangements(S, Cardinality(S)) :
                              Join([k \in 1..Len(cu) |-> cu[k].text]) = RowTexts(q)
                       /\ cu[1].start_time_seconds = FirstStart(order[v])
            /\ (video_idx > 1 /\ Len(chunks) > 1) =>
                   \E n \in 1..Len(transcript) :
                       /\ chunks[1].text = Join(TextsAt([j \in 1..n |-> j]))
                       /\ SumDur([j \in 1..n |-> j]) >= min_chunk_time

(* A file in which a row of a second video lies between the rows of the      *)
(* first: the first video gives a chunk that reaches the threshold and a     *)
(* trailing run under it, flushed under its own url, and the second video    *)
(* starts a chunk of its own.                                                *)
ChunksWithinOneVideoWitness ==
    /\ chunk_pc = "written"
    /\ Len(data_rows) = 4
    /\ data_rows[1].video_url = "v=A" /\ data_rows[2].video_url = "v=B"
    /\ data_rows[3].video_url = "v=A" /\ data_rows[4].video_url = "v=A"
    /\ min_chunk_time = 3
    /\ Len(all_chunks) = 3
    /\ all_chunks[1].text = "a c" /\ all_chunks[1].video_url = "v=A"
    /\ all_chunks[2].text = "d"   /\ all_chunks[2].video_url = "v=A"
    /\ all_chunks[3].text = "b"   /\ all_chunks[3].video_url = "v=B"

(* C26 - the two copies of chunk_transcript agree: for every transcript and  *)
(* every min_chunk_time, after each item visited by the loop of the copy in  *)
(* subtitle_chunker.py its chunk list and its three accumulators are those   *)
(* of the copy in subtitle_merger_chunker.py after the same items, and the   *)
(* list the first copy returns is the list the second copy returns: the      *)
(* same number of chunks, with the same texts and the same start_time.       *)
CopiesAgree ==
    /\ chunk_pc = "loop" =>
           chunk_loop(SubSeq(transcript, 1, item_idx - 1), 1, min_chunk_time,
                      [chunks |-> <<>>, current_chunk_text |-> <<>>,
                       current_chunk_start_time |-> None,
                       current_chunk_duration |-> 0])
               = [chunks |-> chunks,
                  current_chunk_text |-> current_chunk_text,
                  current_chunk_start_time |-> current_chunk_start_time,
                  current_chunk_duration |-> current_chunk_duration]
    /\ chunk_pc = "done" =>
           LET other == chunk_transcript(transcript, min_chunk_time)
           IN  /\ Len(other) = Len(chunks)
               /\ \A k \in 1..Len(chunks) :
                      /\ other[k].text = chunks[k].text
                      /\ other[k].start_time = chunks[k].start_time

(* Three segments under a threshold the first two reach together: both       *)
(* copies return a chunk closed by the threshold and the trailing run.       *)
CopiesAgreeWitness ==
    /\ chunk_pc = "done"
    /\ Len(transcript) = 3
    /\ Len(chunks) = 2
    /\ chunks[1].text = "a b"
    /\ chunks[2].text = "c"
    /\ chunk_transcript(transcript, min_chunk_time) = chunks
    /\ chunks[2].start_time = Some(transcript[3].start)

(* The place of a language in LANG_ORDER. *)
LangPos(l) == CHOOSE i \in 1..Len(LANG_ORDER) : LANG_ORDER[i] = l

(* (language place, part) of a comes before that of b. *)
GroupBefore(a, b) ==
    \/ LangPos(a.lang) < LangPos(b.lang)
    \/ a.lang = b.lang /\ a.part < b.part

(* The groups of the run are sealed in language priority order and, within   *)
(* a language, in increasing part number.                                    *)
GroupsInOrder ==
    \A i, j \in 1..Len(sealed) : i < j => GroupBefore(sealed[i], sealed[j])

(* The fetches of the run are made group after group in that order and,      *)
(* within a group, item after item.                                          *)
FetchesInOrder ==
    \A i, j \in 1..Len(fetch_log) : i < j =>
        \/ GroupBefore(fetch_log[i], fetch_log[j])
        \/ /\ fetch_log[i].lang = fetch_log[j].lang
           /\ fetch_log[i].part = fetch_log[j].part
           /\ fetch_log[i].pos < fetch_log[j].pos

(* While a group is being fetched, the ledger save of every earlier group    *)
(* of the run has completed: the stored ledger is the table (the one the     *)
(* last completed save wrote, when the run has an earlier group), and the    *)
(* table holds the loaded rows followed by a row for each successful fetch   *)
(* of the earlier groups.                                                    *)
SaveBeforeNextFetch ==
    pc = "fetch" =>
        LET earlier == SelectSeq(OkLog, LAMBDA e :
                           e.lang # LANG_ORDER[lang_idx] \/ e.part # part_idx)
        IN  /\ Stored = tracking_table
            /\ Len(sealed) > 1 => saved = tracking_table
            /\ Len(NewRows(tracking_table)) = Len(earlier)
            /\ \A i \in 1..Len(earlier) :
                   /\ NewRows(tracking_table)[i].video_id = earlier[i].video_id
                   /\ NewRows(tracking_table)[i].lang = earlier[i].lang

(* No (item, language) pair is fetched twice in the run, and a run that      *)
(* reaches the end of main has fetched every pair the scan accepted.         *)
FetchedExactlyOnce ==
    /\ \A i, j \in 1..Len(fetch_log) :
           (fetch_log[i].video_id = fetch_log[j].video_id
                /\ fetch_log[i].lang = fetch_log[j].lang) => i = j
    /\ pc = "done" =>
           \A l \in Langs : \A k \in 1..Len(lang_video_lists[l]) :
               \E i \in 1..Len(fetch_log) :
                   /\ fetch_log[i].video_id = lang_video_lists[l][k].video_id
                   /\ fetch_log[i].lang = l

(* C25 - commit order: within a run, groups are fetched and committed one at *)
(* a time in language priority order (zh, en, th) and, within a language, in *)
(* increasing part number; the ledger save of a group is complete before any *)
(* fetch of the next group; and each accepted (item, language) pair is       *)
(* fetched exactly once in the run.                                          *)
CommitOrder ==
    /\ GroupsInOrder
    /\ FetchesInOrder
    /\ SaveBeforeNextFetch
    /\ FetchedExactlyOnce

(* The same over a catalog that names no video_id twice. *)
CommitOrderDistinctIds == NoRepeatedIds => CommitOrder

(* A finished run over distinct ids that fetched two groups of one language  *)
(* and then a group of a later one.                                          *)
CommitOrderDistinctIdsWitness ==
    /\ pc = "done"
    /\ NoRepeatedIds
    /\ Len(sealed) = 3
    /\ sealed[1].lang = sealed[2].lang
    /\ sealed[2].lang # sealed[3].lang
    /\ Len(fetch_log) = 3

====
